---- MODULE Spec2Model ----
(***************************************************************************)
(* Model of kivy/c_ext/graphics_instr_base.pyx: the context instructions   *)
(* (LineWidth, Color, CanvasDraw, BindTexture, PushMatrix, PopMatrix), the *)
(* matrix instructions (MatrixInstruction, Transform, Rotate, Scale,       *)
(* Translate), the context they write to and the replay of a canvas.       *)
(*                                                                         *)
(* An instruction object is a record holding its class and its attributes. *)
(* A method is an operator on a "world" [self, context, err]: the object,  *)
(* the context it refers to, and the exception raised so far ("" if none). *)
(* Numbers are small integers (every value used is exact as a float).      *)
(***************************************************************************)
EXTENDS Integers, Sequences, FiniteSets, TLC

VARIABLES
    canvas,     \* the canvas's ordered instruction list
    context,    \* the drawing context shared by the instructions
    mode,       \* "author" | "replay" | "done" | "failed"
    pc,         \* index of the next instruction of the replay
    err,        \* exception raised by the last operation, "" if none
    last,       \* the operation performed by the last step
    ncalls,     \* number of constructor and method calls made so far
    mvmAt,      \* history: the matrix stack before each replayed instruction
    composed,   \* history: per instruction, matrices composed since identity()
    frame       \* history: replays started, and the canvas as the last one saw it

vars == <<canvas, context, mode, pc, err, last, ncalls, mvmAt, composed, frame>>

(***************************************************************************)
(* Bounds of the model.                                                    *)
(***************************************************************************)
MaxInstr == 1       \* instructions on the canvas while authoring (Spec)
MaxCalls == 3       \* constructor and method calls while authoring (Spec)
MaxCompose == 4     \* constructor and method calls on transforms (SpecTransform)
MaxProg == 3        \* instructions of a replayed canvas (SpecReplay)
MaxScope == 5       \* instructions of a canvas of scopes (SpecScope)
MaxFrames == 1      \* replays after which authoring resumes (SpecFrames)

(***************************************************************************)
(* Python values.                                                          *)
(***************************************************************************)
\* A cdef object attribute that was never assigned (a matrix slot).
None == <<>>
\* A cdef float attribute that was never assigned.
FloatDefault == 0

(***************************************************************************)
(* kivy.lib.transformations: 4x4 matrices as 4 rows of 4 numbers.          *)
(***************************************************************************)
identity_matrix ==
    << <<1, 0, 0, 0>>, <<0, 1, 0, 0>>, <<0, 0, 1, 0>>, <<0, 0, 0, 1>> >>

Dot(a, b, i, j) ==
    a[i][1] * b[1][j] + a[i][2] * b[2][j] + a[i][3] * b[3][j] + a[i][4] * b[4][j]

MatRow(a, b, i) == << Dot(a, b, i, 1), Dot(a, b, i, 2), Dot(a, b, i, 3), Dot(a, b, i, 4) >>

\* matrix_multiply(a, b) = a . b
matrix_multiply(a, b) == << MatRow(a, b, 1), MatRow(a, b, 2), MatRow(a, b, 3), MatRow(a, b, 4) >>

translation_matrix(x, y, z) ==
    << <<1, 0, 0, x>>, <<0, 1, 0, y>>, <<0, 0, 1, z>>, <<0, 0, 0, 1>> >>

scale_matrix(sx, sy, sz) ==
    << <<sx, 0, 0, 0>>, <<0, sy, 0, 0>>, <<0, 0, sz, 0>>, <<0, 0, 0, 1>> >>

\* Angles are degrees, multiples of 90; axes lie along a coordinate axis.
Cos(angle) == CASE angle % 360 = 0 -> 1
                [] angle % 360 = 90 -> 0
                [] angle % 360 = 180 -> -1
                [] angle % 360 = 270 -> 0

Sin(angle) == CASE angle % 360 = 0 -> 0
                [] angle % 360 = 90 -> 1
                [] angle % 360 = 180 -> 0
                [] angle % 360 = 270 -> -1

Sgn(n) == IF n > 0 THEN 1 ELSE IF n < 0 THEN -1 ELSE 0

\* The unit vector of an axis-aligned vector.
unit_vector(v) == << Sgn(v[1]), Sgn(v[2]), Sgn(v[3]) >>

\* Rotation about the axis: cos*I + (1 - cos)*d*d^T + sin*[d]x.
rotation_matrix(angle, axis) ==
    LET d == unit_vector(axis)
        c == Cos(angle)
        s == Sin(angle)
        k == 1 - c
    IN  << << c + k * d[1] * d[1], k * d[1] * d[2] - s * d[3], k * d[1] * d[3] + s * d[2], 0 >>,
           << k * d[2] * d[1] + s * d[3], c + k * d[2] * d[2], k * d[2] * d[3] - s * d[1], 0 >>,
           << k * d[3] * d[1] - s * d[2], k * d[3] * d[2] + s * d[1], c + k * d[3] * d[3], 0 >>,
           << 0, 0, 0, 1 >> >>

(***************************************************************************)
(* The context: color, line width, bound texture, the model-view matrix    *)
(* stack (its top is the last element) and the post_update hook.           *)
(***************************************************************************)
ContextInit ==
    [ color |-> <<1, 1, 1, 1>>,
      linewidth |-> 1,
      texture0 |-> "None",
      mvm |-> << identity_matrix >>,
      post_updates |-> 0,
      dirty |-> FALSE ]

Raise(w, e) == IF w.err = "" THEN [w EXCEPT !.err = e] ELSE w

\* context.set(key, value)
ContextSet(w, key, value) ==
    IF w.err # "" THEN w
    ELSE CASE key = "color" -> [w EXCEPT !.context.color = value]
           [] key = "linewidth" -> [w EXCEPT !.context.linewidth = value]
           [] key = "texture0" -> [w EXCEPT !.context.texture0 = value]

\* context.post_update(): flags the canvas dirty, counts the call.
post_update(w) ==
    IF w.err # "" THEN w
    ELSE [w EXCEPT !.context.post_updates = @ + 1, !.context.dirty = TRUE]

\* context.get('mvm').push(): duplicates the top.
MvmPush(w) ==
    IF w.err # "" THEN w
    ELSE [w EXCEPT !.context.mvm = Append(@, @[Len(@)])]

\* context.get('mvm').pop(): discards the top; the base matrix stays.
MvmPop(w) ==
    IF w.err # "" THEN w
    ELSE IF Len(w.context.mvm) <= 1 THEN Raise(w, "ImbalancedMatrixStackError")
    ELSE [w EXCEPT !.context.mvm = SubSeq(@, 1, Len(@) - 1)]

\* context.get('mvm').apply(mat): top := top . mat
MvmApply(w, mat) ==
    IF w.err # "" THEN w
    ELSE IF mat = None THEN Raise(w, "TypeError")
    ELSE [w EXCEPT !.context.mvm[Len(w.context.mvm)] = matrix_multiply(@, mat)]

(***************************************************************************)
(* Instruction objects.  NewWorld is the state an __init__ starts from.    *)
(***************************************************************************)
NewWorld(obj, ctx) == [self |-> obj, context |-> ctx, err |-> ""]

(***************************************************************************)
(* LineWidth                                                               *)
(***************************************************************************)
LineWidthInit(ctx, args) ==
    NewWorld([cls |-> "LineWidth",
              lw |-> IF Len(args) = 1 THEN args[1] ELSE FloatDefault], ctx)

LineWidthSet(w, lw) == [w EXCEPT !.self.lw = lw]
\* Variant: setting the line width also resets the color.
LineWidthApplyResetsColor(w) ==
    ContextSet(ContextSet(w, "color", <<1, 1, 1, 1>>), "linewidth", w.self.lw)

LineWidthApply(w) == ContextSet(w, "linewidth", w.self.lw)

(***************************************************************************)
(* Color                                                                   *)
(***************************************************************************)
\* Variant: the value is stored as given, empty or not.
ColorSetRgbaAsGiven(w, rgba) ==
    IF w.err # "" THEN w
    ELSE post_update([w EXCEPT !.self.color = rgba])

\* rgba.__set__: an empty or None value becomes opaque white.
ColorSetRgba(w, rgba) ==
    IF w.err # "" THEN w
    ELSE post_update([w EXCEPT !.self.color =
                         IF rgba = None THEN <<1, 1, 1, 1>> ELSE rgba])

ColorInit(ctx, args) ==
    ColorSetRgba(NewWorld([cls |-> "Color", color |-> None], ctx), args)

\* rgba.__get__, rgb.__get__ (color[:-1])
ColorGetRgba(self) == self.color

ColorGetRgb(self) == SubSeq(self.color, 1, Len(self.color) - 1)

\* r/g/b/a.__get__: color[k], an IndexError when the list is shorter.
ColorHas(self, k) == Len(self.color) >= k

ColorGet(self, k) == self.color[k]
\* Variant: rgb keeps the alpha the color had.
ColorSetRgbKeepAlpha(w, rgb) ==
    ColorSetRgba(w, <<rgb[1], rgb[2], rgb[3],
                      IF ColorHas(w.self, 4) THEN ColorGet(w.self, 4) ELSE 1>>)

ColorSetRgb(w, rgb) == ColorSetRgba(w, <<rgb[1], rgb[2], rgb[3], 1>>)

ColorSetR(w, r) ==
    IF ~ColorHas(w.self, 4) THEN Raise(w, "IndexError")
    ELSE ColorSetRgba(w, <<r, ColorGet(w.self, 2), ColorGet(w.self, 3), ColorGet(w.self, 4)>>)

ColorSetG(w, g) ==
    IF ~ColorHas(w.self, 4) THEN Raise(w, "IndexError")
    ELSE ColorSetRgba(w, <<ColorGet(w.self, 1), g, ColorGet(w.self, 3), ColorGet(w.self, 4)>>)

ColorSetB(w, b) ==
    IF ~ColorHas(w.self, 4) THEN Raise(w, "IndexError")
    ELSE ColorSetRgba(w, <<ColorGet(w.self, 1), ColorGet(w.self, 2), b, ColorGet(w.self, 4)>>)

ColorSetA(w, a) ==
    IF ~ColorHas(w.self, 4) THEN Raise(w, "IndexError")
    ELSE ColorSetRgba(w, <<ColorGet(w.self, 1), ColorGet(w.self, 2), ColorGet(w.self, 3), a>>)
\* Variant: the channels are written in the order b, g, r, a.
ColorApplyBgra(w) ==
    IF ~ColorHas(w.self, 4) THEN Raise(w, "IndexError")
    ELSE ContextSet(w, "color", <<ColorGet(w.self, 3), ColorGet(w.self, 2),
                                  ColorGet(w.self, 1), ColorGet(w.self, 4)>>)

ColorApply(w) ==
    IF ~ColorHas(w.self, 4) THEN Raise(w, "IndexError")
    ELSE ContextSet(w, "color", <<ColorGet(w.self, 1), ColorGet(w.self, 2),
                                  ColorGet(w.self, 3), ColorGet(w.self, 4)>>)

(***************************************************************************)
(* CanvasDraw: apply calls obj.draw(), which is outside the context.       *)
(***************************************************************************)
CanvasDrawInit(ctx, args) == NewWorld([cls |-> "CanvasDraw", obj |-> args[1]], ctx)

CanvasDrawApply(w) == w

(***************************************************************************)
(* BindTexture                                                             *)
(***************************************************************************)
BindTextureSetTexture(w, tex) ==
    IF w.err # "" THEN w
    ELSE post_update([w EXCEPT !.self._texture = tex])

BindTextureInit(ctx, args) ==
    BindTextureSetTexture(NewWorld([cls |-> "BindTexture", _texture |-> "None"], ctx), args[1])

BindTextureSet(w, texture) == BindTextureSetTexture(w, texture)

BindTextureApply(w) == ContextSet(w, "texture0", w.self._texture)

(***************************************************************************)
(* PushMatrix, PopMatrix                                                   *)
(***************************************************************************)
PushMatrixInit(ctx) == NewWorld([cls |-> "PushMatrix"], ctx)

PopMatrixInit(ctx) == NewWorld([cls |-> "PopMatrix"], ctx)

PushMatrixApply(w) == MvmPush(w)
\* Variant: apply does not pop.
PopMatrixApplyKeep(w) == w

\* Variant: the error of a pop on the base matrix is swallowed.
PopMatrixApplyQuiet(w) == IF Len(w.context.mvm) <= 1 THEN w ELSE MvmPop(w)

\* Variant: the top is removed without the underflow check.
PopMatrixApplyUnchecked(w) ==
    [w EXCEPT !.context.mvm = SubSeq(@, 1, Len(@) - 1)]
\* Variant: the popped top is carried down onto the matrix below it.
PopMatrixApplyCarry(w) ==
    IF w.err # "" THEN w
    ELSE IF Len(w.context.mvm) <= 1 THEN Raise(w, "ImbalancedMatrixStackError")
    ELSE [w EXCEPT !.context.mvm =
             Append(SubSeq(@, 1, Len(@) - 2), @[Len(@)])]

PopMatrixApply(w) == MvmPop(w)

(***************************************************************************)
(* MatrixInstruction: __init__ leaves mat unassigned.                      *)
(***************************************************************************)
MatrixInstructionInit(ctx) == NewWorld([cls |-> "MatrixInstruction", mat |-> None], ctx)
\* Variant: the instruction's matrix replaces the top of the stack.
MatrixInstructionApplyReplace(w) ==
    IF w.err # "" THEN w
    ELSE IF w.self.mat = None THEN Raise(w, "TypeError")
    ELSE [w EXCEPT !.context.mvm[Len(w.context.mvm)] = w.self.mat]

MatrixInstructionApply(w) == MvmApply(w, w.self.mat)
\* Variant: the assigned matrix is applied to the stack at once.
MatrixSetEager(w, mat) ==
    IF w.err # "" THEN w
    ELSE post_update(MvmApply([w EXCEPT !.self.mat = mat], mat))

\* matrix.__set__
MatrixSet(w, mat) ==
    IF w.err # "" THEN w
    ELSE post_update([w EXCEPT !.self.mat = mat])

(***************************************************************************)
(* Transform                                                               *)
(***************************************************************************)
TransformInit(ctx) == NewWorld([cls |-> "Transform", mat |-> None], ctx)
\* Variant: trans is multiplied on the left.
TransformTransformLeft(w, trans) ==
    IF w.err # "" THEN w
    ELSE IF w.self.mat = None \/ trans = None THEN Raise(w, "TypeError")
    ELSE [w EXCEPT !.self.mat = matrix_multiply(trans, @)]

\* transform(trans): self.mat = matrix_multiply(self.mat, trans)
TransformTransform(w, trans) ==
    IF w.err # "" THEN w
    ELSE IF w.self.mat = None \/ trans = None THEN Raise(w, "TypeError")
    ELSE [w EXCEPT !.self.mat = matrix_multiply(@, trans)]

TransformTranslate(w, tx, ty, tz) == TransformTransform(w, translation_matrix(tx, ty, tz))

TransformRotate(w, angle, ax, ay, az) ==
    TransformTransform(w, rotation_matrix(angle, <<ax, ay, az>>))

TransformScale(w, s) == TransformTransform(w, scale_matrix(s, s, s))

TransformIdentity(w) == MatrixSet(w, identity_matrix)

(***************************************************************************)
(* Rotate                                                                  *)
(***************************************************************************)
\* Variant: the new rotation is multiplied into the previous matrix.
RotateSetCompound(w, angle, ax, ay, az) ==
    IF w.err # "" THEN w
    ELSE MatrixSet([w EXCEPT !.self._angle = angle, !.self._axis = <<ax, ay, az>>],
                   IF w.self.mat = None THEN rotation_matrix(angle, <<ax, ay, az>>)
                   ELSE matrix_multiply(w.self.mat, rotation_matrix(angle, <<ax, ay, az>>)))

RotateSet(w, angle, ax, ay, az) ==
    IF w.err # "" THEN w
    ELSE MatrixSet([w EXCEPT !.self._angle = angle, !.self._axis = <<ax, ay, az>>],
                   rotation_matrix(angle, <<ax, ay, az>>))

RotateInit(ctx, args) ==
    LET w == NewWorld([cls |-> "Rotate", mat |-> None,
                       _angle |-> FloatDefault, _axis |-> None], ctx)
    IN  IF Len(args) = 4 THEN RotateSet(w, args[1], args[2], args[3], args[4])
        ELSE RotateSet(w, 0, 0, 0, 1)

RotateGetAngle(self) == self._angle

RotateGetAxis(self) == self._axis

RotateSetAngle(w, a) == RotateSet(w, a, w.self._axis[1], w.self._axis[2], w.self._axis[3])

RotateSetAxis(w, axis) == RotateSet(w, w.self._angle, axis[1], axis[2], axis[3])

(***************************************************************************)
(* Scale                                                                   *)
(***************************************************************************)
\* scale_matrix(s) is the uniform scale, as scale_matrix(s, s, s).
ScaleInit(ctx, args) ==
    LET w == NewWorld([cls |-> "Scale", mat |-> None, s |-> FloatDefault], ctx)
    IN  IF Len(args) = 1
        THEN MatrixSet([w EXCEPT !.self.s = args[1]], scale_matrix(args[1], args[1], args[1]))
        ELSE w

ScaleGetScale(self) == self.s

ScaleSetScale(w, s) ==
    IF w.err # "" THEN w
    ELSE MatrixSet([w EXCEPT !.self.s = s], scale_matrix(s, s, s))

(***************************************************************************)
(* Translate: no method assigns _x, _y, _z.                                *)
(***************************************************************************)
TranslateInit(ctx, args) ==
    LET w == NewWorld([cls |-> "Translate", mat |-> None, _x |-> FloatDefault,
                       _y |-> FloatDefault, _z |-> FloatDefault], ctx)
    IN  IF Len(args) = 3
        THEN MatrixSet(w, translation_matrix(args[1], args[2], args[3]))
        ELSE w

set_translate(w, x, y, z) == MatrixSet(w, translation_matrix(x, y, z))

TranslateGetX(self) == self._x

TranslateGetY(self) == self._y

TranslateGetZ(self) == self._z

TranslateGetXy(self) == <<self._x, self._y>>

TranslateGetXyz(self) == <<self._x, self._y, self._z>>

TranslateSetX(w, x) == set_translate(w, x, w.self._y, w.self._z)

TranslateSetY(w, y) == set_translate(w, w.self._x, y, w.self._z)

TranslateSetZ(w, z) == set_translate(w, w.self._x, w.self._y, z)

TranslateSetXy(w, c) == set_translate(w, c[1], c[2], w.self._z)
\* Variant: xyz assigned one component at a time.
TranslateSetXyzPerComponent(w, c) ==
    TranslateSetZ(TranslateSetY(TranslateSetX(w, c[1]), c[2]), c[3])

TranslateSetXyz(w, c) == set_translate(w, c[1], c[2], c[3])

(***************************************************************************)
(* apply, dispatched on the instruction's class.                           *)
(***************************************************************************)
MatrixFamily == {"MatrixInstruction", "Transform", "Rotate", "Scale", "Translate"}

TransformFamily == {"Transform", "Rotate", "Scale", "Translate"}

Apply(w) ==
    CASE w.self.cls = "LineWidth" -> LineWidthApply(w)
      [] w.self.cls = "Color" -> ColorApply(w)
      [] w.self.cls = "CanvasDraw" -> CanvasDrawApply(w)
      [] w.self.cls = "BindTexture" -> BindTextureApply(w)
      [] w.self.cls = "PushMatrix" -> PushMatrixApply(w)
      [] w.self.cls = "PopMatrix" -> PopMatrixApply(w)
      [] w.self.cls \in MatrixFamily -> MatrixInstructionApply(w)

(***************************************************************************)
(* Inputs of the calls.                                                    *)
(***************************************************************************)
Channels == {0, 1}

ColorArgs == {<<>>, <<1, 0, 0, 1>>, <<0, 1, 0>>}

RgbArgs == {<<0, 0, 1>>, <<1, 1, 0>>}

Widths == {2}

Textures == {"tex1", "tex2"}

Drawables == {"obj1"}

Angles == {90, 180}

Axes == {<<1, 0, 0>>, <<0, 0, 2>>}

RotateArgs == {<<>>, <<90, 0, 0, 1>>, <<90, 0, 2, 0>>}

Scales == {2}

Coords == {1, 2}

TranslateArgs == {<<>>, <<1, 2, 3>>}

Matrices == {translation_matrix(1, 0, 0), rotation_matrix(90, <<0, 0, 1>>)}

(***************************************************************************)
(* State after construction of the canvas and its context.                 *)
(***************************************************************************)
NoComposition == [known |-> FALSE, mats |-> <<>>]

Init ==
    /\ canvas = <<>>
    /\ context = ContextInit
    /\ mode = "author"
    /\ pc = 0
    /\ err = ""
    /\ last = [op |-> "init", idx |-> 0, args |-> <<>>]
    /\ ncalls = 0
    /\ mvmAt = <<>>
    /\ composed = <<>>
    /\ frame = [n |-> 0, canvas |-> <<>>]

(***************************************************************************)
(* History of the compositions: since the last identity() on instruction   *)
(* i, the matrices handed to transform() by the calls on it, in call order.*)
(***************************************************************************)
Compositions == {"Transform.transform", "Transform.translate", "Transform.rotate",
                 "Transform.scale"}

ComposedMatrix(l) ==
    CASE l.op = "Transform.transform" -> l.args[1]
      [] l.op = "Transform.translate" -> translation_matrix(l.args[1], l.args[2], l.args[3])
      [] l.op = "Transform.rotate" ->
            rotation_matrix(l.args[1], <<l.args[2], l.args[3], l.args[4]>>)
      [] l.op = "Transform.scale" -> scale_matrix(l.args[1], l.args[1], l.args[1])

Record ==
    composed' =
        IF Len(canvas') > Len(canvas) THEN Append(composed, NoComposition)
        ELSE IF last'.op \in {"draw", "apply"} \/ Len(canvas') < last'.idx THEN composed
        ELSE IF last'.op = "Transform.identity"
             THEN [composed EXCEPT ![last'.idx] = [known |-> TRUE, mats |-> <<>>]]
        ELSE IF last'.op \in Compositions
             THEN IF err' = "" THEN [composed EXCEPT ![last'.idx].mats =
                                        Append(@, ComposedMatrix(last'))]
                  ELSE composed
        ELSE [composed EXCEPT ![last'.idx] = NoComposition]

Limits(len, calls) == [len |-> len, calls |-> calls]

Room(lim) == mode = "author" /\ Len(canvas) < lim.len /\ ncalls < lim.calls

(***************************************************************************)
(* Authoring: an instruction is constructed and added to the canvas.       *)
(***************************************************************************)
Add(w, op, args) ==
    /\ canvas' = IF w.err = "" THEN Append(canvas, w.self) ELSE canvas
    /\ context' = w.context
    /\ err' = w.err
    /\ last' = [op |-> op, idx |-> Len(canvas) + 1, args |-> args]
    /\ ncalls' = ncalls + 1
    /\ UNCHANGED <<mode, pc, mvmAt, frame>>
    /\ Record

AddLineWidth(lim) ==
    /\ Room(lim)
    /\ \E args \in {<<>>} \cup {<<lw>> : lw \in Widths} :
          Add(LineWidthInit(context, args), "LineWidth.__init__", args)

AddColor(lim) ==
    /\ Room(lim)
    /\ \E args \in ColorArgs : Add(ColorInit(context, args), "Color.__init__", args)

AddCanvasDraw(lim) ==
    /\ Room(lim)
    /\ \E obj \in Drawables : Add(CanvasDrawInit(context, <<obj>>), "CanvasDraw.__init__", <<obj>>)

AddBindTexture(lim) ==
    /\ Room(lim)
    /\ \E tex \in Textures : Add(BindTextureInit(context, <<tex>>), "BindTexture.__init__", <<tex>>)

AddPushMatrix(lim) ==
    /\ Room(lim)
    /\ Add(PushMatrixInit(context), "PushMatrix.__init__", <<>>)

AddPopMatrix(lim) ==
    /\ Room(lim)
    /\ Add(PopMatrixInit(context), "PopMatrix.__init__", <<>>)

AddMatrixInstruction(lim) ==
    /\ Room(lim)
    /\ Add(MatrixInstructionInit(context), "MatrixInstruction.__init__", <<>>)

AddTransform(lim) ==
    /\ Room(lim)
    /\ Add(TransformInit(context), "Transform.__init__", <<>>)

AddRotate(lim) ==
    /\ Room(lim)
    /\ \E args \in RotateArgs : Add(RotateInit(context, args), "Rotate.__init__", args)

AddScale(lim) ==
    /\ Room(lim)
    /\ \E args \in {<<>>} \cup {<<s>> : s \in Scales} :
          Add(ScaleInit(context, args), "Scale.__init__", args)

AddTranslate(lim) ==
    /\ Room(lim)
    /\ \E args \in TranslateArgs : Add(TranslateInit(context, args), "Translate.__init__", args)

(***************************************************************************)
(* Authoring: a method or property setter is called on instruction i.      *)
(***************************************************************************)
World(i) == [self |-> canvas[i], context |-> context, err |-> ""]

Call(i, w, op, args) ==
    /\ canvas' = [canvas EXCEPT ![i] = w.self]
    /\ context' = w.context
    /\ err' = w.err
    /\ last' = [op |-> op, idx |-> i, args |-> args]
    /\ ncalls' = ncalls + 1
    /\ UNCHANGED <<mode, pc, mvmAt, frame>>
    /\ Record

Callable(lim, i, classes) ==
    /\ mode = "author"
    /\ ncalls < lim.calls
    /\ canvas[i].cls \in classes

Instances == 1..Len(canvas)

CallLineWidthSet(lim) ==
    \E i \in Instances : \E lw \in Widths :
        Callable(lim, i, {"LineWidth"}) /\ Call(i, LineWidthSet(World(i), lw), "LineWidth.set", <<lw>>)

CallColorRgba(lim) ==
    \E i \in Instances : \E rgba \in ColorArgs :
        Callable(lim, i, {"Color"}) /\ Call(i, ColorSetRgba(World(i), rgba), "Color.rgba", <<rgba>>)

CallColorRgb(lim) ==
    \E i \in Instances : \E rgb \in RgbArgs :
        Callable(lim, i, {"Color"}) /\ Call(i, ColorSetRgb(World(i), rgb), "Color.rgb", <<rgb>>)

CallColorR(lim) ==
    \E i \in Instances : \E v \in Channels :
        Callable(lim, i, {"Color"}) /\ Call(i, ColorSetR(World(i), v), "Color.r", <<v>>)

CallColorG(lim) ==
    \E i \in Instances : \E v \in Channels :
        Callable(lim, i, {"Color"}) /\ Call(i, ColorSetG(World(i), v), "Color.g", <<v>>)

CallColorB(lim) ==
    \E i \in Instances : \E v \in Channels :
        Callable(lim, i, {"Color"}) /\ Call(i, ColorSetB(World(i), v), "Color.b", <<v>>)

CallColorA(lim) ==
    \E i \in Instances : \E v \in Channels :
        Callable(lim, i, {"Color"}) /\ Call(i, ColorSetA(World(i), v), "Color.a", <<v>>)

CallBindTextureSet(lim) ==
    \E i \in Instances : \E tex \in Textures :
        Callable(lim, i, {"BindTexture"})
        /\ Call(i, BindTextureSet(World(i), tex), "BindTexture.set", <<tex>>)

CallBindTextureTexture(lim) ==
    \E i \in Instances : \E tex \in Textures :
        Callable(lim, i, {"BindTexture"})
        /\ Call(i, BindTextureSetTexture(World(i), tex), "BindTexture.texture", <<tex>>)

CallMatrix(lim) ==
    \E i \in Instances : \E m \in Matrices :
        Callable(lim, i, MatrixFamily)
        /\ Call(i, MatrixSet(World(i), m), "MatrixInstruction.matrix", <<m>>)

CallTransform(lim) ==
    \E i \in Instances : \E m \in Matrices :
        Callable(lim, i, TransformFamily)
        /\ Call(i, TransformTransform(World(i), m), "Transform.transform", <<m>>)

CallTranslate(lim) ==
    \E i \in Instances : \E t \in {<<1, 0, 0>>} :
        Callable(lim, i, TransformFamily)
        /\ Call(i, TransformTranslate(World(i), t[1], t[2], t[3]), "Transform.translate", t)

CallRotate(lim) ==
    \E i \in Instances : \E r \in {<<90, 0, 0, 1>>} :
        Callable(lim, i, TransformFamily)
        /\ Call(i, TransformRotate(World(i), r[1], r[2], r[3], r[4]), "Transform.rotate", r)

CallScale(lim) ==
    \E i \in Instances : \E s \in Scales :
        Callable(lim, i, TransformFamily)
        /\ Call(i, TransformScale(World(i), s), "Transform.scale", <<s>>)

CallIdentity(lim) ==
    \E i \in Instances :
        Callable(lim, i, TransformFamily)
        /\ Call(i, TransformIdentity(World(i)), "Transform.identity", <<>>)

CallRotateSet(lim) ==
    \E i \in Instances : \E a \in Angles : \E axis \in Axes :
        Callable(lim, i, {"Rotate"})
        /\ Call(i, RotateSet(World(i), a, axis[1], axis[2], axis[3]), "Rotate.set",
                <<a, axis[1], axis[2], axis[3]>>)

CallRotateAngle(lim) ==
    \E i \in Instances : \E a \in Angles :
        Callable(lim, i, {"Rotate"}) /\ Call(i, RotateSetAngle(World(i), a), "Rotate.angle", <<a>>)

CallRotateAxis(lim) ==
    \E i \in Instances : \E axis \in Axes :
        Callable(lim, i, {"Rotate"}) /\ Call(i, RotateSetAxis(World(i), axis), "Rotate.axis", <<axis>>)

CallScaleScale(lim) ==
    \E i \in Instances : \E s \in Scales :
        Callable(lim, i, {"Scale"}) /\ Call(i, ScaleSetScale(World(i), s), "Scale.scale", <<s>>)

CallTranslateX(lim) ==
    \E i \in Instances : \E v \in Coords :
        Callable(lim, i, {"Translate"}) /\ Call(i, TranslateSetX(World(i), v), "Translate.x", <<v>>)

CallTranslateY(lim) ==
    \E i \in Instances : \E v \in Coords :
        Callable(lim, i, {"Translate"}) /\ Call(i, TranslateSetY(World(i), v), "Translate.y", <<v>>)

CallTranslateZ(lim) ==
    \E i \in Instances : \E v \in Coords :
        Callable(lim, i, {"Translate"}) /\ Call(i, TranslateSetZ(World(i), v), "Translate.z", <<v>>)

CallTranslateXy(lim) ==
    \E i \in Instances : \E c \in {<<1, 2>>, <<2, 1>>} :
        Callable(lim, i, {"Translate"}) /\ Call(i, TranslateSetXy(World(i), c), "Translate.xy", <<c>>)

CallTranslateXyz(lim) ==
    \E i \in Instances : \E c \in {<<1, 2, 3>>, <<2, 1, 1>>} :
        Callable(lim, i, {"Translate"}) /\ Call(i, TranslateSetXyz(World(i), c), "Translate.xyz", <<c>>)

(***************************************************************************)
(* Replay: the canvas applies its instructions in order; an exception of   *)
(* an apply ends the replay and reaches the caller.                        *)
(***************************************************************************)
StartReplay ==
    /\ mode = "author"
    /\ mode' = IF Len(canvas) = 0 THEN "done" ELSE "replay"
    /\ pc' = 1
    /\ context' = [context EXCEPT !.dirty = FALSE]
    /\ err' = ""
    /\ last' = [op |-> "draw", idx |-> 0, args |-> <<>>]
    /\ mvmAt' = << context.mvm >>
    /\ frame' = [n |-> frame.n + 1, canvas |-> canvas]
    /\ UNCHANGED <<canvas, ncalls>>
    /\ Record

ReplayStep ==
    /\ mode = "replay"
    /\ LET w == Apply([self |-> canvas[pc], context |-> context, err |-> ""])
       IN  /\ context' = w.context
           /\ err' = w.err
           /\ mode' = IF w.err # "" THEN "failed"
                      ELSE IF pc = Len(canvas) THEN "done" ELSE "replay"
           /\ pc' = IF w.err # "" THEN pc ELSE pc + 1
           /\ mvmAt' = IF w.err # "" THEN mvmAt ELSE Append(mvmAt, w.context.mvm)
    /\ last' = [op |-> "apply", idx |-> pc, args |-> <<>>]
    /\ UNCHANGED <<canvas, ncalls, frame>>
    /\ Record

(***************************************************************************)
(* Spec: authoring of a small canvas with every method, then its replay.   *)
(***************************************************************************)
Author == Limits(MaxInstr, MaxCalls)

Construct(lim) ==
    \/ AddLineWidth(lim)
    \/ AddColor(lim)
    \/ AddCanvasDraw(lim)
    \/ AddBindTexture(lim)
    \/ AddPushMatrix(lim)
    \/ AddPopMatrix(lim)
    \/ AddMatrixInstruction(lim)
    \/ AddTransform(lim)
    \/ AddRotate(lim)
    \/ AddScale(lim)
    \/ AddTranslate(lim)

Method(lim) ==
    \/ CallLineWidthSet(lim)
    \/ CallColorRgba(lim)
    \/ CallColorRgb(lim)
    \/ CallColorR(lim)
    \/ CallColorG(lim)
    \/ CallColorB(lim)
    \/ CallColorA(lim)
    \/ CallBindTextureSet(lim)
    \/ CallBindTextureTexture(lim)
    \/ CallMatrix(lim)
    \/ CallTransform(lim)
    \/ CallTranslate(lim)
    \/ CallRotate(lim)
    \/ CallScale(lim)
    \/ CallIdentity(lim)
    \/ CallRotateSet(lim)
    \/ CallRotateAngle(lim)
    \/ CallRotateAxis(lim)
    \/ CallScaleScale(lim)
    \/ CallTranslateX(lim)
    \/ CallTranslateY(lim)
    \/ CallTranslateZ(lim)
    \/ CallTranslateXy(lim)
    \/ CallTranslateXyz(lim)

Replay == StartReplay \/ ReplayStep

Next == Construct(Author) \/ Method(Author) \/ Replay

Spec == Init /\ [][Next]_vars

(***************************************************************************)
(* SpecTransform: the matrix property and the composition methods of the   *)
(* matrix instructions, then the replay of the canvas.                     *)
(***************************************************************************)
Composer == Limits(MaxInstr, MaxCompose)

Compose(lim) ==
    \/ CallMatrix(lim)
    \/ CallTransform(lim)
    \/ CallTranslate(lim)
    \/ CallRotate(lim)
    \/ CallScale(lim)
    \/ CallIdentity(lim)

NextTransform == Construct(Composer) \/ Compose(Composer) \/ Replay

SpecTransform == Init /\ [][NextTransform]_vars

(***************************************************************************)
(* SpecReplay: a canvas of constructed instructions, then its replay.      *)
(***************************************************************************)
Program == Limits(MaxProg, MaxProg)

NextReplay == Construct(Program) \/ Replay

SpecReplay == Init /\ [][NextReplay]_vars

(***************************************************************************)
(* SpecScope: canvases of PushMatrix, PopMatrix and transforms, replayed.  *)
(***************************************************************************)
Scoped == Limits(MaxScope, MaxScope)

NextScope ==
    \/ AddPushMatrix(Scoped)
    \/ AddPopMatrix(Scoped)
    \/ AddScale(Scoped)
    \/ AddTranslate(Scoped)
    \/ Replay

SpecScope == Init /\ [][NextScope]_vars

(***************************************************************************)
(* SpecFrames: authoring, a replay, and authoring again on the drawn       *)
(* canvas before the next replay.  The context lives across the frames.    *)
(***************************************************************************)
Resume ==
    /\ mode = "done"
    /\ frame.n <= MaxFrames
    /\ mode' = "author"
    /\ pc' = 0
    /\ last' = [op |-> "resume", idx |-> 0, args |-> <<>>]
    /\ UNCHANGED <<canvas, context, err, ncalls, mvmAt, composed, frame>>

NextFrames == Construct(Author) \/ Method(Author) \/ Replay \/ Resume

SpecFrames == Init /\ [][NextFrames]_vars

(***************************************************************************)
(* Properties.                                                             *)
(***************************************************************************)
RECURSIVE Product(_, _)
\* m . mats[1] . mats[2] ... , each matrix multiplied on the right.
Product(m, mats) ==
    IF mats = <<>> THEN m ELSE Product(matrix_multiply(m, Head(mats)), Tail(mats))

Top(stack) == stack[Len(stack)]

StateSetters ==
    {"Color.rgba", "Color.rgb", "Color.r", "Color.g", "Color.b", "Color.a",
     "BindTexture.texture", "MatrixInstruction.matrix", "Rotate.angle", "Rotate.axis",
     "Scale.scale", "Translate.x", "Translate.y", "Translate.z", "Translate.xy",
     "Translate.xyz"}

\* C1: every assignment through a property setter that changes stored state
\* (Color rgba/rgb/r/g/b/a, BindTexture.texture, MatrixInstruction.matrix,
\* Rotate angle/axis, Scale.scale, Translate x/y/z/xy/xyz) makes exactly one
\* post_update() call, the compound setters xy and xyz included.
C1_OnePostUpdatePerAssignment ==
    [][(last'.op \in StateSetters /\ err' = "")
          => context'.post_updates = context.post_updates + 1]_vars

\* A Translate built with arguments (one call) whose xyz was then assigned.
C1_Witness ==
    /\ last.op = "Translate.xyz"
    /\ err = ""
    /\ canvas[last.idx].mat = translation_matrix(2, 1, 1)
    /\ context.post_updates = 2

\* C2: reading x, y, z, xy, xyz of a Translate returns the values most
\* recently assigned: after xyz = (a,b,c) reading xyz returns (a,b,c), and
\* likewise for the other setters.
C2_ReadsLastAssigned ==
    /\ (last.op = "Translate.xyz" /\ err = "")
          => TranslateGetXyz(canvas[last.idx]) = last.args[1]
    /\ (last.op = "Translate.xy" /\ err = "")
          => TranslateGetXy(canvas[last.idx]) = last.args[1]
    /\ (last.op = "Translate.x" /\ err = "")
          => TranslateGetX(canvas[last.idx]) = last.args[1]
    /\ (last.op = "Translate.y" /\ err = "")
          => TranslateGetY(canvas[last.idx]) = last.args[1]
    /\ (last.op = "Translate.z" /\ err = "")
          => TranslateGetZ(canvas[last.idx]) = last.args[1]

\* C3: a Translate setter rebuilds the matrix from all current parameters:
\* after x = a and then y = b on the same instruction, the matrix is
\* translation_matrix(a, b, c) with c the z translation it had before.
C3_MatrixFromAllParameters ==
    [][(/\ last.op = "Translate.x" /\ err = ""
        /\ last'.op = "Translate.y" /\ err' = ""
        /\ last'.idx = last.idx)
          => canvas'[last.idx].mat =
                translation_matrix(last.args[1], last'.args[1], canvas[last.idx].mat[3][4])]_vars

RotateCalls == {"Rotate.__init__", "Rotate.set", "Rotate.angle", "Rotate.axis"}

\* The angle and axis a call on a Rotate asks for, given the object before.
RotateAsked(l, before) ==
    CASE l.op = "Rotate.__init__" ->
            IF Len(l.args) = 4 THEN <<l.args[1], <<l.args[2], l.args[3], l.args[4]>> >>
            ELSE <<0, <<0, 0, 1>> >>
      [] l.op = "Rotate.set" -> <<l.args[1], <<l.args[2], l.args[3], l.args[4]>> >>
      [] l.op = "Rotate.angle" -> <<l.args[1], before._axis>>
      [] l.op = "Rotate.axis" -> <<before._angle, l.args[1]>>

\* C4: after the construction of a Rotate and after every assignment to
\* angle or axis and every set(), the matrix is rotation_matrix(angle, axis)
\* of the current parameters, whatever the matrix was before; assigning
\* angle keeps the axis and assigning axis keeps the angle.
C4_RotateIsAbsolute ==
    [][(last'.op \in RotateCalls /\ err' = "")
          => LET after == canvas'[last'.idx]
                 asked == RotateAsked(last', IF last'.op = "Rotate.__init__" THEN after
                                             ELSE canvas[last'.idx])
             IN  /\ RotateGetAngle(after) = asked[1]
                 /\ RotateGetAxis(after) = asked[2]
                 /\ after.mat = rotation_matrix(asked[1], asked[2])]_vars

\* A Rotate(90, ...) whose axis and then angle were assigned.
C4_Witness ==
    /\ last.op = "Rotate.angle"
    /\ err = ""
    /\ canvas[last.idx]._angle = 180
    /\ canvas[last.idx]._axis = <<1, 0, 0>>
    /\ canvas[last.idx].mat = rotation_matrix(180, <<1, 0, 0>>)
    /\ context.post_updates = 3

\* C5: after identity() and the composition calls transform(m1) ... (mn)
\* (translate/rotate/scale hand their matrix to transform) the stored matrix
\* is identity . m1 . ... . mn in call order; the calls leave the context's
\* matrix stack alone; a later apply multiplies the product into the top.
C5_ComposesOnTheRight ==
    /\ [](\A i \in 1..Len(canvas) :
             composed[i].known => canvas[i].mat = Product(identity_matrix, composed[i].mats))
    /\ [][/\ (last'.op \in Compositions \cup {"Transform.identity"})
                => context'.mvm = context.mvm
          /\ (last'.op = "apply" /\ composed[last'.idx].known)
                => /\ err' = ""
                   /\ Len(context'.mvm) = Len(context.mvm)
                   /\ Top(context'.mvm) =
                         matrix_multiply(Top(context.mvm),
                                         Product(identity_matrix, composed[last'.idx].mats))]_vars

\* identity(), translate(1,0,0), rotate(90,0,0,1), then one replay.
C5_Witness ==
    /\ mode = "done"
    /\ Len(canvas) = 1
    /\ composed[1].known
    /\ composed[1].mats = <<translation_matrix(1, 0, 0), rotation_matrix(90, <<0, 0, 1>>)>>
    /\ context.mvm = << matrix_multiply(matrix_multiply(identity_matrix,
                                                        translation_matrix(1, 0, 0)),
                                        rotation_matrix(90, <<0, 0, 1>>)) >>

\* Number of instructions the replay has applied.
Applied == IF mvmAt = <<>> THEN 0 ELSE Len(mvmAt) - 1

Below(stack) == SubSeq(stack, 1, Len(stack) - 1)

\* The matrices of instructions j..k of the canvas.
MatsOf(j, k) == [i \in 1..(k - j + 1) |-> canvas[j + i - 1].mat]

MatrixApplied ==
    /\ last'.op = "apply"
    /\ canvas[last'.idx].cls \in MatrixFamily
    /\ canvas[last'.idx].mat # None

\* C6: applying a matrix instruction with matrix M to a stack whose top is
\* T makes the top T . M and changes nothing else (depth, entries below the
\* top, color, line width, texture); so a run of matrix instructions
\* Mj..Mk takes the top T to T . Mj . ... . Mk.
C6_ApplyMultipliesTop ==
    /\ [][MatrixApplied
            => /\ err' = ""
               /\ Len(context'.mvm) = Len(context.mvm)
               /\ Top(context'.mvm) =
                     matrix_multiply(Top(context.mvm), canvas[last'.idx].mat)
               /\ Below(context'.mvm) = Below(context.mvm)
               /\ context'.color = context.color
               /\ context'.linewidth = context.linewidth
               /\ context'.texture0 = context.texture0]_vars
    /\ [](\A j \in 1..Applied : \A k \in j..Applied :
             (\A n \in j..k : canvas[n].cls \in MatrixFamily)
                => Top(mvmAt[k + 1]) = Product(Top(mvmAt[j]), MatsOf(j, k)))

\* Translate(1,2,3) and two Rotate(90, ...) about different axes, replayed.
C6_Witness ==
    /\ mode = "done"
    /\ Len(canvas) = 3
    /\ canvas[1].cls = "Translate"
    /\ canvas[2].cls = "Rotate"
    /\ canvas[3].cls = "Rotate"
    /\ canvas[2].mat # canvas[3].mat
    /\ canvas[2].mat # identity_matrix
    /\ canvas[3].mat # identity_matrix
    /\ context.mvm = << matrix_multiply(matrix_multiply(canvas[1].mat, canvas[2].mat),
                                        canvas[3].mat) >>

\* C7: PushMatrix directly followed by PopMatrix leaves the matrix stack as
\* it was before the PushMatrix (same matrices, same depth), and neither of
\* the two fails.
C7_PushPopRoundTrip ==
    \A k \in 1..(Len(canvas) - 1) :
        (/\ canvas[k].cls = "PushMatrix"
         /\ canvas[k + 1].cls = "PopMatrix"
         /\ Applied >= k - 1
         /\ mode \in {"replay", "done", "failed"})
            => /\ ~(mode = "failed" /\ pc \in {k, k + 1})
               /\ Applied >= k + 1 => mvmAt[k + 2] = mvmAt[k]

\* A transform, then PushMatrix and PopMatrix, replayed.
C7_Witness ==
    /\ mode = "done"
    /\ Len(canvas) = 3
    /\ canvas[1].cls = "Scale"
    /\ canvas[2].cls = "PushMatrix"
    /\ canvas[3].cls = "PopMatrix"
    /\ context.mvm = << scale_matrix(2, 2, 2) >>

\* C8: PopMatrix applied when only the base matrix is on the stack raises
\* ImbalancedMatrixStackError, the replay ends failed with that error, and
\* the context (color and line width included) is as before the pop.
C8_PopOnBaseFails ==
    [][(/\ last'.op = "apply"
        /\ canvas[last'.idx].cls = "PopMatrix"
        /\ Len(context.mvm) = 1)
          => /\ err' = "ImbalancedMatrixStackError"
             /\ mode' = "failed"
             /\ context'.color = context.color
             /\ context'.linewidth = context.linewidth
             /\ context' = context]_vars

\* Color and LineWidth applied, then an unmatched PopMatrix.
C8_Witness ==
    /\ mode = "failed"
    /\ err = "ImbalancedMatrixStackError"
    /\ pc = 3
    /\ canvas[pc].cls = "PopMatrix"
    /\ context.color = <<1, 0, 0, 1>>
    /\ context.linewidth = 2

\* C9: the matrix stack is never empty, at any point of any replay,
\* unmatched PopMatrix instructions included.
C9_StackNeverEmpty ==
    /\ Len(context.mvm) >= 1
    /\ \A k \in 1..Len(mvmAt) : Len(mvmAt[k]) >= 1

\* PushMatrix, PopMatrix, then a second PopMatrix that has nothing to pop.
C9_Witness ==
    /\ mode = "failed"
    /\ pc = 3
    /\ canvas[1].cls = "PushMatrix"
    /\ canvas[2].cls = "PopMatrix"
    /\ canvas[3].cls = "PopMatrix"
    /\ Len(context.mvm) = 1

Rgba(self) == <<ColorGet(self, 1), ColorGet(self, 2), ColorGet(self, 3), ColorGet(self, 4)>>

ColorsApplied == {k \in 1..Applied : canvas[k].cls = "Color"}

LastColorApplied == CHOOSE k \in ColorsApplied : \A n \in ColorsApplied : n <= k

\* C10: applying a Color writes its (r, g, b, a) into the context's color,
\* and after any replayed prefix holding a Color the context's color is the
\* (r, g, b, a) of the last Color of that prefix.
C10_LastColorWins ==
    /\ [][(/\ last'.op = "apply"
           /\ canvas[last'.idx].cls = "Color"
           /\ ColorHas(canvas[last'.idx], 4))
             => /\ err' = ""
                /\ context'.color = Rgba(canvas[last'.idx])]_vars
    /\ [](ColorsApplied # {} => context.color = Rgba(canvas[LastColorApplied]))

\* Color(), an instruction, Color(1,0,0,1), replayed.
C10_Witness ==
    /\ mode = "done"
    /\ Len(canvas) = 3
    /\ canvas[1].cls = "Color"
    /\ canvas[1].color = <<1, 1, 1, 1>>
    /\ canvas[2].cls = "BindTexture"
    /\ canvas[3].cls = "Color"
    /\ context.color = <<1, 0, 0, 1>>

\* C11: assigning rgb = (r, g, b) to a Color, whatever it held before, makes
\* rgba read (r, g, b, 1) (alpha is reset to 1) and rgb read (r, g, b).
C11_RgbResetsAlpha ==
    [][(last'.op = "Color.rgb" /\ err' = "")
          => LET c == canvas'[last'.idx]
                 rgb == last'.args[1]
             IN  /\ ColorGetRgba(c) = <<rgb[1], rgb[2], rgb[3], 1>>
                 /\ ColorGetRgb(c) = rgb]_vars

\* A Color that had another setter called on it, then rgb = (0, 0, 1).
C11_Witness ==
    /\ last.op = "Color.rgb"
    /\ err = ""
    /\ ncalls = 3
    /\ context.post_updates = 3
    /\ canvas[last.idx].color = <<0, 0, 1, 1>>

\* C12: Color() with no arguments, and an empty or None value assigned to
\* rgba, store opaque white (1, 1, 1, 1) and raise nothing.
C12_EmptyIsWhite ==
    [][(\/ last'.op = "Color.__init__" /\ last'.args = <<>>
        \/ last'.op = "Color.rgba" /\ last'.args = << None >>)
          => /\ err' = ""
             /\ Len(canvas') >= last'.idx
             /\ canvas'[last'.idx].color = <<1, 1, 1, 1>>]_vars

\* Color(1,0,0,1), a channel set to 0, then rgba assigned the empty value.
C12_Witness ==
    /\ last.op = "Color.rgba"
    /\ last.args = << None >>
    /\ ncalls = 3
    /\ err = ""
    /\ canvas[last.idx].color = <<1, 1, 1, 1>>
    /\ context.post_updates = 3

\* C13: a Color constructed with, or whose rgba is assigned, a non-empty
\* value that does not have 4 channels is rejected with InvalidColorArity,
\* so every Color holds exactly 4 channels.
C13_ColorHasFourChannels ==
    /\ \A i \in 1..Len(canvas) : canvas[i].cls = "Color" => Len(canvas[i].color) = 4
    /\ (last.op = "Color.__init__" /\ last.args # <<>> /\ Len(last.args) # 4)
          => err = "InvalidColorArity"
    /\ (last.op = "Color.rgba" /\ last.args[1] # None /\ Len(last.args[1]) # 4)
          => err = "InvalidColorArity"

StateInstructionSetters ==
    {"LineWidth.set", "Color.rgba", "Color.rgb", "Color.r", "Color.g", "Color.b",
     "Color.a", "BindTexture.set", "BindTexture.texture"}

\* C14: a setter of a state instruction (LineWidth.set, the Color setters,
\* BindTexture.set and BindTexture.texture) stores the value and calls
\* context.post_update(), so the canvas is dirty after it.
C14_StateSettersNotify ==
    (last.op \in StateInstructionSetters /\ err = "")
        => /\ context.dirty
           /\ last.op = "LineWidth.set" => canvas[last.idx].lw = last.args[1]
           /\ last.op \in {"BindTexture.set", "BindTexture.texture"}
                 => canvas[last.idx]._texture = last.args[1]

\* Setter and composition calls on instructions: every authoring call that
\* is not a constructor.
SetterCalls ==
    StateInstructionSetters \cup StateSetters \cup Compositions
        \cup {"Transform.identity", "Rotate.set"}

ContextSlots(ctx) == <<ctx.color, ctx.linewidth, ctx.texture0, ctx.mvm>>

\* C15: no setter or composition call on an instruction changes the
\* context's color, line width, bound texture or matrix stack, touches another
\* instruction or moves the replay: outside the instruction it only raises
\* the dirty notification.  The context's slots change only in a step that
\* applies an instruction during a replay.
C15_SettersOnlyNotify ==
    [][/\ last'.op \in SetterCalls
            => /\ ContextSlots(context') = ContextSlots(context)
               /\ context'.post_updates \in {context.post_updates, context.post_updates + 1}
               /\ context'.dirty = (context.dirty \/ context'.post_updates # context.post_updates)
               /\ mode' = mode /\ pc' = pc /\ mvmAt' = mvmAt
               /\ Len(canvas') = Len(canvas)
               /\ \A i \in 1..Len(canvas) : i # last'.idx => canvas'[i] = canvas[i]
       /\ ContextSlots(context') # ContextSlots(context)
            => last'.op = "apply" /\ mode = "replay"]_vars

C15_Witness ==
    /\ last.op = "MatrixInstruction.matrix"
    /\ err = ""
    /\ canvas[last.idx].mat = rotation_matrix(90, <<0, 0, 1>>)
    /\ context.dirty
    /\ ContextSlots(context) = ContextSlots(ContextInit)

\* C16: a freshly constructed MatrixInstruction or Transform, and a Scale or
\* Translate constructed with no arguments, stores the identity matrix, and
\* its apply in a replay succeeds and leaves the matrix stack as it was.
C16_FreshMatrixIsIdentity ==
    /\ (/\ \/ last.op \in {"MatrixInstruction.__init__", "Transform.__init__"}
           \/ last.op \in {"Scale.__init__", "Translate.__init__"} /\ last.args = <<>>
        /\ err = "")
          => canvas[last.idx].mat = identity_matrix
    /\ (/\ last.op = "apply"
        /\ canvas[last.idx].cls \in {"MatrixInstruction", "Transform"}
        /\ canvas[last.idx].mat \in {None, identity_matrix})
          => err = "" /\ context.mvm = mvmAt[last.idx]

\* Instructions of the canvas whose stored matrix is not the one the last
\* replay saw.
StaleMatrices ==
    {i \in 1..Len(canvas) :
        /\ i <= Len(frame.canvas)
        /\ canvas[i].cls \in MatrixFamily
        /\ frame.canvas[i].cls = canvas[i].cls
        /\ canvas[i].mat # frame.canvas[i].mat}

\* C18: every operation that changes a transform instruction's stored matrix
\* marks the canvas dirty (the matrix property and identity(), and also
\* transform(), translate(), rotate() and scale()): while authoring after a
\* replay, an instruction whose matrix differs from the one used at that
\* replay implies a dirty canvas.
C18_ChangedMatrixIsDirty ==
    (mode = "author" /\ frame.n >= 1 /\ StaleMatrices # {}) => context.dirty

\* C19: applying a state instruction changes exactly one context slot:
\* Color.apply only the color, LineWidth.apply only the line width,
\* BindTexture.apply only the bound texture, each leaving the other slots and
\* the matrix stack as they were; CanvasDraw.apply changes no slot; an
\* apply that raises changes none either.
C19_ApplySetsOneSlot ==
    [][last'.op = "apply"
          => LET self == canvas[last'.idx]
             IN  /\ (self.cls = "Color" /\ err' = "")
                       => context' = [context EXCEPT !.color = Rgba(self)]
                 /\ (self.cls = "LineWidth" /\ err' = "")
                       => context' = [context EXCEPT !.linewidth = self.lw]
                 /\ (self.cls = "BindTexture" /\ err' = "")
                       => context' = [context EXCEPT !.texture0 = self._texture]
                 /\ self.cls = "CanvasDraw" => err' = "" /\ context' = context
                 /\ (self.cls \in {"Color", "LineWidth", "BindTexture"} /\ err' # "")
                       => context' = context]_vars

\* Color(1,0,0,1), BindTexture(tex1), LineWidth(2) replayed: each slot holds
\* its instruction's value after the last apply.
C19_Witness ==
    /\ last.op = "apply"
    /\ last.idx = 3
    /\ err = ""
    /\ canvas[3].cls = "LineWidth"
    /\ context.linewidth = 2
    /\ context.color = <<1, 0, 0, 1>>
    /\ context.texture0 = "tex1"
    /\ context.mvm = << identity_matrix >>

\* Open scopes after instruction m, counted from the instruction after j.
Nesting(j, m) ==
    Cardinality({i \in (j + 1)..m : canvas[i].cls = "PushMatrix"})
        - Cardinality({i \in (j + 1)..m : canvas[i].cls = "PopMatrix"})

\* The PopMatrix at k closes the scope the PushMatrix at j opened.
Matching(j, k) ==
    /\ j < k
    /\ canvas[j].cls = "PushMatrix"
    /\ canvas[k].cls = "PopMatrix"
    /\ Nesting(j, k - 1) = 0
    /\ \A m \in (j + 1)..(k - 1) : Nesting(j, m) >= 0

\* C20: transforms are scoped by Push/Pop: once a replay has applied a
\* PushMatrix, transforms and properly nested Push/Pop pairs after it, and
\* the PopMatrix that matches it, the matrix stack (its depth, its top and
\* the matrices below) is the one the replay had before the PushMatrix, and
\* the matching PopMatrix does not fail.
C20_ScopeRestoresStack ==
    \A j, k \in 1..Len(canvas) :
        (Matching(j, k) /\ Applied >= k - 1)
            => /\ ~(mode = "failed" /\ pc = k)
               /\ Applied >= k => mvmAt[k + 1] = mvmAt[j]

\* PushMatrix, Scale(2), PushMatrix, PopMatrix, PopMatrix replayed: the
\* scale was on the stack inside the scope and is gone after it.
C20_Witness ==
    /\ mode = "done"
    /\ Len(canvas) = 5
    /\ Matching(1, 5)
    /\ Matching(3, 4)
    /\ canvas[2].cls = "Scale"
    /\ Top(mvmAt[5]) = scale_matrix(2, 2, 2)
    /\ Len(mvmAt[4]) = 3
    /\ context.mvm = << identity_matrix >>

====
